---- MODULE Spec2Model ----
(***************************************************************************)
(* OFENet (stable_baselines3/common/ofenet.py): the construction of the    *)
(* network, the forward pass through the observation flattener, the two    *)
(* branches of growth blocks and the lazily shaped output projection, the  *)
(* feature-extraction calls, train_ofe and test_ofe.                       *)
(*                                                                         *)
(* Tensors are modelled by their shapes (the width of the feature axis)    *)
(* and, for the metrics of test_ofe, by short vectors of small integers.   *)
(* A float result is modelled by its class: "zero", "nonzero", "inf" or    *)
(* "nan" (IEEE division: 0/0 is nan, x/0 is inf).                          *)
(***************************************************************************)
EXTENDS Integers, Sequences, FiniteSets, TLC

\* ------------------------------------------------------------------ bounds
MaxUnits == 12     \* total_units ranges over 0..MaxUnits
MaxLayers == 3     \* num_layers ranges over 0..MaxLayers
MaxCalls == 2      \* train_ofe is called at most MaxCalls times

StateDims == {1, 2}                      \* dim_state
ActionDims == {1, 2}                     \* dim_action
OutputDims == {1, 2}                     \* dim_output
ActionWidths == {1, 2}                   \* width of an actions tensor passed in

Keys == {"a", "b"}                       \* names of observation sub-fields
KeyWidths(k) == IF k = "a" THEN {1, 2} ELSE {1}   \* flattened size of sub-field k
TaskSelectors == {"fsp", "fsdp", "rwp", "other"}   \* "other": any other string
ValidTasks == {"fsp", "fsdp", "rwp"}
Vals == {0, 1}                           \* entries of the tensors' values
Vecs == Vals \X Vals                     \* the values of a tensor, flattened

\* A dictionary: a function from some of the keys to sub-field widths.
Dicts == UNION {{d \in [K -> 1..2] : \A k \in K : d[k] \in KeyWidths(k)} :
                K \in SUBSET Keys}
Spaces == Dicts \ {<<>>}

\* The arguments of __init__.
CtorArgs ==
    [dim_state : StateDims, dim_action : ActionDims, dim_output : OutputDims,
     total_units : 0..MaxUnits, num_layers : 0..MaxLayers,
     aux_task : TaskSelectors, observation_space : Spaces,
     skip_action_branch : BOOLEAN]

\* The networks whose calls are explored: every task selector and output
\* width, with and without the action branch, two blocks of one unit in each
\* branch, and an observation space whose flattened width is dim_state or
\* one whose flattened width is not.
NetArgs ==
    [dim_state : {2}, dim_action : {1}, dim_output : OutputDims,
     total_units : {2}, num_layers : {2},
     aux_task : TaskSelectors,
     observation_space : {[a |-> 2], [a |-> 2, b |-> 1]},
     skip_action_branch : BOOLEAN]

VARIABLES
    phase,            \* "new", "built" (__init__ returned) or "failed" (it raised)
    self,             \* the attributes __init__ has set
    ctor_error,       \* the exception __init__ raised, and where
    state_training,   \* self.state_model.training
    action_training,  \* self.action_model.training
    out_in_features,  \* self.out_layer.in_features; 0 while uninitialized
    out_weight,       \* self.out_layer's parameters: 0 uninitialized, else
                      \* the version of their values (1: as first initialized)
    param_version,    \* the version of the growth blocks' parameter values
    opt_steps,        \* the step count of self.optimizer
    grads,            \* 0: the gradients are None; n: n backward passes summed
    mse_train,        \* self.mse_train
    call,             \* the last public call: what it was, how it ended and
                      \* what it returned
    train_calls,      \* history: the number of train_ofe calls made
    train_returns     \* history: the number of train_ofe calls that returned

vars == <<phase, self, ctor_error, state_training, action_training,
          out_in_features, out_weight, param_version, opt_steps, grads, mse_train,
          call, train_calls, train_returns>>

\* ----------------------------------------------------------------- helpers
RECURSIVE SumSeq(_)
SumSeq(s) == IF s = <<>> THEN 0 ELSE Head(s) + SumSeq(Tail(s))

RECURSIVE SumDict(_, _)
SumDict(d, K) ==
    IF K = {} THEN 0
    ELSE LET k == CHOOSE x \in K : TRUE IN d[k] + SumDict(d, K \ {k})

Repeat(x, n) == [i \in 1..n |-> x]

Min(a, b) == IF a <= b THEN a ELSE b

Abs(x) == IF x < 0 THEN -x ELSE x

\* ------------------------------------------------- calculate_layer_units
\* `assert total_units % num_layers == 0` (a zero num_layers raises in the
\* modulo itself), then [per_unit] * num_layers for both branches.
\* Variant: the divisibility assertion is missing, and the widths are the
\* rounded-down quotient.
calculate_layer_units_unchecked(state_dim, action_dim, total_units, num_layers) ==
    IF num_layers = 0
    THEN [err |-> "ZeroDivisionError", state |-> <<>>, action |-> <<>>]
    ELSE LET per_unit == total_units \div num_layers IN
         [err |-> "none",
          state |-> Repeat(per_unit, num_layers),
          action |-> Repeat(per_unit, num_layers)]

\* Variant: the action branch is planned with one layer too few.
calculate_layer_units_short(state_dim, action_dim, total_units, num_layers) ==
    IF num_layers = 0
    THEN [err |-> "ZeroDivisionError", state |-> <<>>, action |-> <<>>]
    ELSE IF total_units % num_layers # 0
    THEN [err |-> "AssertionError", state |-> <<>>, action |-> <<>>]
    ELSE LET per_unit == total_units \div num_layers IN
         [err |-> "none",
          state |-> Repeat(per_unit, num_layers),
          action |-> Repeat(per_unit, num_layers - 1)]

calculate_layer_units(state_dim, action_dim, total_units, num_layers) ==
    IF num_layers = 0
    THEN [err |-> "ZeroDivisionError", state |-> <<>>, action |-> <<>>]
    ELSE IF total_units % num_layers # 0
    THEN [err |-> "AssertionError", state |-> <<>>, action |-> <<>>]
    ELSE LET per_unit == total_units \div num_layers IN
         [err |-> "none",
          state |-> Repeat(per_unit, num_layers),
          action |-> Repeat(per_unit, num_layers)]

\* ---------------------------------------------------------- DictExtractor
\* forward: for each key of the observation space, observations[key]
\* flattened; the results concatenated along the feature axis.
flatten_dict(observation_space, observations) ==
    IF ~(DOMAIN observation_space \subseteq DOMAIN observations)
    THEN [err |-> "KeyError", width |-> 0]
    ELSE [err |-> "none",
          width |-> SumDict(observations, DOMAIN observation_space)]

\* ------------------------------------------------------------ growth block
\* DensenetBlock(units_per_layer): width W in, width W + units_per_layer out.
DensenetBlock(units_per_layer, width) == width + units_per_layer

\* nn.Sequential over the blocks of one branch.
RECURSIVE Sequential(_, _)
Sequential(blocks, width) ==
    IF blocks = <<>> THEN width
    ELSE Sequential(Tail(blocks), DensenetBlock(Head(blocks), width))

\* ------------------------------------------------------------------- state
NoSelf ==
    [dim_state |-> 0, dim_action |-> 0, dim_output |-> 0, total_units |-> 0,
     num_layers |-> 0, aux_task |-> "", skip_action_branch |-> FALSE,
     observation_space |-> <<>>, state_blocks |-> <<>>, action_blocks |-> <<>>,
     out_layer |-> FALSE, optimizer |-> FALSE,
     dim_state_features |-> 0, dim_state_action_features |-> 0]

NoMetrics ==
    [mae |-> "zero", mae_percent |-> "zero", mape |-> "zero", mse |-> "zero",
     mse_percent |-> "zero", mspe |-> "unset"]

\* The record of a public call. width: the width of the features returned
\* (train_ofe, test_ofe: of the features given to the output projection).
\* ran: the state branch was run. state_mode, action_mode: the modes of the
\* branches (TRUE: training) while the call's forward pass ran. result: the array test_ofe returned, which
\* is also what it left in self.mae_test ... self.mspe_test. conforming: the
\* observation passed has the keys and the widths of the observation space.
\* exact: the prediction equalled the target.
NoCall == [op |-> "none", outcome |-> "none", width |-> 0, ran |-> FALSE,
           state_mode |-> FALSE, action_mode |-> FALSE,
           result |-> NoMetrics, conforming |-> FALSE, exact |-> FALSE]

Init ==
    /\ phase = "new"
    /\ self = NoSelf
    /\ ctor_error = "none"
    /\ state_training = TRUE
    /\ action_training = TRUE
    /\ out_in_features = 0
    /\ out_weight = 0
    /\ param_version = 0
    /\ opt_steps = 0
    /\ grads = 0
    /\ mse_train = "zero"
    /\ call = NoCall
    /\ train_calls = 0
    /\ train_returns = 0

\* ---------------------------------------------------------------- __init__
\* Lines 43-49 set the parameters, line 50 plans the layer widths, lines
\* 54-79 build the blocks, the projection, the optimizer and the widths.
__init__(args) ==
    /\ LET params == [NoSelf EXCEPT
                        !.dim_state = args.dim_state,
                        !.dim_action = args.dim_action,
                        !.dim_output = args.dim_output,
                        !.total_units = args.total_units,
                        !.num_layers = args.num_layers,
                        !.aux_task = args.aux_task,
                        !.skip_action_branch = args.skip_action_branch]
           plan == calculate_layer_units(args.dim_state, args.dim_action,
                                         args.total_units, args.num_layers)
       IN IF plan.err # "none"
          THEN /\ phase' = "failed"
               /\ self' = params
               /\ ctor_error' = plan.err
          ELSE /\ phase' = "built"
               /\ self' = [params EXCEPT
                    !.observation_space = args.observation_space,
                    !.state_blocks = plan.state,
                    !.action_blocks = plan.action,
                    !.out_layer = TRUE,
                    !.optimizer = TRUE,
                    !.dim_state_features = args.total_units + args.dim_state,
                    !.dim_state_action_features =
                        args.total_units + args.dim_state + args.dim_action
                        + args.total_units]
               /\ ctor_error' = "none"
    /\ UNCHANGED <<state_training, action_training, out_in_features,
                   out_weight, param_version, opt_steps, grads, mse_train,
                   call, train_calls, train_returns>>

Construct ==
    /\ phase = "new"
    /\ \E args \in CtorArgs : __init__(args)

ConstructNet ==
    /\ phase = "new"
    /\ \E args \in NetArgs : __init__(args)

\* ------------------------------------------------------------- out_layer
\* nn.LazyLinear(dim_output) applied to features of the given width: the
\* first application infers in_features and initializes the parameters; a
\* later one with another width raises (mat1 and mat2 shapes cannot be
\* multiplied). in_features / weight: the layer after the application.
\* Variant: the layer infers its input width anew on every application.
LazyLinear_reinfer(in_features, weight, width) ==
    IF width # in_features
    THEN [err |-> "none", in_features |-> width, weight |-> 1]
    ELSE [err |-> "none", in_features |-> in_features, weight |-> weight]

LazyLinear(in_features, weight, width) ==
    IF in_features = 0
    THEN [err |-> "none", in_features |-> width, weight |-> 1]
    ELSE IF width # in_features
    THEN [err |-> "RuntimeError", in_features |-> in_features, weight |-> weight]
    ELSE [err |-> "none", in_features |-> in_features, weight |-> weight]

\* ----------------------------------------------------------------- forward
\* flatten, state branch, (unless skipped) concatenate the actions and run
\* the action branch, then the output projection. ran: the state branch was
\* run; features: the width given to the output projection; in_features /
\* weight: the output projection after the pass.
forward(states, actions) ==
    LET flat == flatten_dict(self.observation_space, states) IN
    IF flat.err # "none"
    THEN [err |-> flat.err, ran |-> FALSE, features |-> 0,
          in_features |-> out_in_features, weight |-> out_weight]
    ELSE
    LET state_features == Sequential(self.state_blocks, flat.width)
        features == IF self.skip_action_branch THEN state_features
                    ELSE Sequential(self.action_blocks, state_features + actions)
        out == LazyLinear(out_in_features, out_weight, features)
    IN [err |-> out.err, ran |-> TRUE, features |-> features,
        in_features |-> out.in_features, weight |-> out.weight]

\* Elementwise arithmetic of a (batch, a) with a (batch, b) tensor broadcasts
\* when the widths agree or one of them is 1, and raises otherwise.
Broadcasts(a, b) == a = b \/ a = 1 \/ b = 1

Max(a, b) == IF a >= b THEN a ELSE b

\* The task dispatch of train_ofe (lines 138-152) and of test_ofe (lines
\* 165-202) up to the loss: the forward pass, the target, their difference.
\* rewards is a (batch, 1) column. err "UnboundLocalError": no branch of the
\* dispatch was taken, and feature_loss (train_ofe) or mae (test_ofe) is
\* read unassigned.
aux_loss(states, actions, next_states) ==
    LET target_dim == self.dim_output IN
    IF self.aux_task \notin {"fsp", "fsdp", "rwp"}
    THEN [err |-> "UnboundLocalError", ran |-> FALSE, features |-> 0,
          in_features |-> out_in_features, weight |-> out_weight]
    ELSE
    LET predicted == forward(states, actions) IN
    IF predicted.err # "none" THEN predicted
    ELSE IF self.aux_task = "rwp" THEN predicted
    ELSE
    LET next_flat == flatten_dict(self.observation_space, next_states) IN
    IF next_flat.err # "none" THEN [predicted EXCEPT !.err = next_flat.err]
    ELSE
    LET target_states == Min(next_flat.width, target_dim)
        cur_states == Min(flatten_dict(self.observation_space, states).width,
                          target_dim)
        target == IF self.aux_task = "fsp" THEN target_states
                  ELSE Max(target_states, cur_states)
        ok == /\ self.aux_task = "fsdp" => Broadcasts(target_states, cur_states)
              /\ Broadcasts(target, self.dim_output)
    IN IF ok THEN predicted ELSE [predicted EXCEPT !.err = "RuntimeError"]

\* What the dispatch comes to over the batches (states, actions, next_states)
\* a caller may pass.
Losses ==
    {aux_loss(states, actions, next_states) :
        states \in Dicts, actions \in ActionWidths, next_states \in Dicts}

Conforming(states) ==
    /\ DOMAIN states = DOMAIN self.observation_space
    /\ \A k \in DOMAIN states : states[k] = self.observation_space[k]

Outcome(err) == IF err = "none" THEN "ok" ELSE err

\* ---------------------------------------------------- features_from_states
\* flatten; state_model.eval(); run the state branch; state_model.train().
\* The outcome, the width of the features returned and the mode the state
\* branch is left in.
features_from_states_body(states) ==
    LET flat == flatten_dict(self.observation_space, states) IN
    IF flat.err # "none"
    THEN [err |-> flat.err, width |-> 0, state_training |-> state_training]
    ELSE [err |-> "none",
          width |-> Sequential(self.state_blocks, flat.width),
          state_training |-> TRUE]

features_from_states ==
    /\ phase = "built"
    /\ \E states \in Dicts :
        LET r == features_from_states_body(states) IN
        /\ state_training' = r.state_training
        /\ call' = [NoCall EXCEPT !.op = "features_from_states",
                      !.outcome = Outcome(r.err),
                      !.width = r.width,
                      !.ran = (r.err = "none"),
                      !.conforming = Conforming(states)]
    /\ UNCHANGED <<phase, self, ctor_error, action_training, out_in_features,
                   out_weight, param_version, opt_steps, grads, mse_train,
                   train_calls, train_returns>>

\* -------------------------------------------- features_from_states_actions
\* action_model.eval(); features_from_states; concatenate the actions; run
\* the action branch; action_model.train().
features_from_states_actions ==
    /\ phase = "built"
    /\ \E states \in Dicts, actions \in ActionWidths :
        LET r == features_from_states_body(states) IN
        /\ state_training' = r.state_training
        /\ action_training' = (r.err = "none")
        /\ call' = [NoCall EXCEPT !.op = "features_from_states_actions",
                      !.outcome = Outcome(r.err),
                      !.width = IF r.err # "none" THEN 0
                                ELSE Sequential(self.action_blocks,
                                                r.width + actions),
                      !.ran = (r.err = "none"),
                      !.conforming = Conforming(states)]
    /\ UNCHANGED <<phase, self, ctor_error, out_in_features,
                   out_weight, param_version, opt_steps, grads, mse_train,
                   train_calls, train_returns>>

\* ---------------------------------------------------------------- optimizer
\* optimizer.zero_grad(set_to_none=True): the gradients become None.
zero_grad(g) == 0

\* feature_loss.backward(): the gradients of the loss are added to those held.
backward(g) == g + 1

\* optimizer.step(): Adam updates the parameters that have a gradient and
\* advances their step count; with no gradient it does nothing.
step(g, steps) == IF g = 0 THEN steps ELSE steps + 1

\* Variant: the gradients are cleared after the backward pass.
optimize_clear_last(g, steps) ==
    LET summed == backward(g)
        cleared == zero_grad(summed)
    IN [grads |-> cleared, steps |-> step(cleared, steps)]

\* Lines 155-157 of train_ofe, in their order.
optimize(g, steps) ==
    LET cleared == zero_grad(g)
        summed == backward(cleared)
    IN [grads |-> summed, steps |-> step(summed, steps)]

\* --------------------------------------------------------------- train_ofe
train_ofe ==
    /\ phase = "built"
    /\ train_calls < MaxCalls
    /\ train_calls' = train_calls + 1
    /\ \E r \in Losses :
        LET o == optimize(grads, opt_steps)
            stepped == o.steps - opt_steps
        IN
        /\ out_in_features' = r.in_features
        /\ call' = [NoCall EXCEPT !.op = "train_ofe",
                      !.outcome = Outcome(r.err), !.ran = r.ran,
                      !.width = r.features,
                      !.state_mode = r.ran /\ state_training,
                      !.action_mode = r.ran /\ action_training]
        /\ IF r.err # "none"
           THEN /\ out_weight' = r.weight
                /\ UNCHANGED <<param_version, opt_steps, grads, mse_train,
                               train_returns>>
           ELSE /\ mse_train' = "feature_loss"
                /\ grads' = o.grads
                /\ opt_steps' = o.steps
                /\ param_version' = param_version + stepped
                /\ out_weight' = r.weight + stepped
                /\ train_returns' = train_returns + 1
    /\ UNCHANGED <<phase, self, ctor_error, state_training, action_training>>

\* ---------------------------------------------------------------- test_ofe
\* A scalar i + e * self.eps, exactly.
Scalar(i) == [i |-> i, e |-> 0]
AddEps(x) == [x EXCEPT !.e = @ + 1]
IsZero(x) == x.i = 0 /\ x.e = 0

\* The class of num / den for an integer num (IEEE: 0/0 nan, x/0 inf).
Divide(num, den) ==
    IF IsZero(den) THEN (IF num = 0 THEN "nan" ELSE "inf")
    ELSE IF num = 0 THEN "zero" ELSE "nonzero"

\* The class of th.mean over entries of the given classes, none negative.
MeanClass(cs) ==
    IF "nan" \in cs THEN "nan"
    ELSE IF "inf" \in cs THEN "inf"
    ELSE IF "nonzero" \in cs THEN "nonzero" ELSE "zero"

\* Lines 170-175 (and 184-189, 197-202): the six metrics of a target and a
\* prediction.
Metrics(target, predicted) ==
    LET N == DOMAIN target
        diff == [i \in N |-> target[i] - predicted[i]]
        sum_abs == SumSeq([i \in N |-> Abs(diff[i])])
        sum_sq == SumSeq([i \in N |-> diff[i] * diff[i]])
        sum_target == SumSeq(target)
        sum_target_sq == SumSeq([i \in N |-> target[i] * target[i]])
    IN [mae |-> Divide(sum_abs, Scalar(Len(target))),
        mae_percent |-> Divide(sum_abs, Scalar(sum_target)),
        mape |-> MeanClass({Divide(Abs(diff[i]), AddEps(Scalar(target[i]))) :
                            i \in N}),
        mse |-> Divide(sum_sq, Scalar(Len(target))),
        mse_percent |-> Divide(sum_sq, Scalar(sum_target_sq)),
        mspe |-> MeanClass({Divide(diff[i] * diff[i],
                                   AddEps(Scalar(target[i]))) : i \in N})]

\* The target of the task from the values of the batch.
Target(cur, nxt, rewards) ==
    IF self.aux_task = "fsp" THEN nxt
    ELSE IF self.aux_task = "fsdp" THEN [i \in DOMAIN nxt |-> nxt[i] - cur[i]]
    ELSE rewards

\* The targets that the batches (states, next_states, rewards) give.
Targets == {Target(cur, nxt, rewards) : cur \in Vecs, nxt \in Vecs, rewards \in Vecs}

test_ofe ==
    /\ phase = "built"
    /\ \E r \in Losses :
        /\ out_in_features' = r.in_features
        /\ out_weight' = r.weight
        /\ IF r.err # "none"
           THEN /\ state_training' = FALSE
                /\ action_training' = FALSE
                /\ call' = [NoCall EXCEPT !.op = "test_ofe",
                              !.outcome = r.err, !.ran = r.ran,
                              !.width = r.features]
           ELSE \E predicted \in Vecs, target \in Targets :
                /\ state_training' = TRUE
                /\ action_training' = TRUE
                /\ call' = [NoCall EXCEPT !.op = "test_ofe",
                              !.outcome = "ok", !.ran = r.ran,
                              !.width = r.features,
                              !.result = Metrics(target, predicted),
                              !.exact = (predicted = target)]
    /\ UNCHANGED <<phase, self, ctor_error, param_version, opt_steps, grads,
                   mse_train, train_calls, train_returns>>

\* ------------------------------------------------------- train() / eval()
\* nn.Module.train(mode) on the network, which OFENet inherits: sets the
\* mode of every submodule, so of both branches.
set_mode ==
    /\ phase = "built"
    /\ \E mode \in BOOLEAN :
        /\ state_training' = mode
        /\ action_training' = mode
        /\ call' = [NoCall EXCEPT !.op = IF mode THEN "train" ELSE "eval",
                                  !.outcome = "ok"]
    /\ UNCHANGED <<phase, self, ctor_error, out_in_features, out_weight,
                   param_version, opt_steps, grads, mse_train,
                   train_calls, train_returns>>

\* ---------------------------------------------------------- specifications
\* Construction alone, over all the arguments.
SpecInit == Init /\ [][Construct]_vars

\* The calls of the network's own interface.
Next ==
    \/ ConstructNet
    \/ features_from_states
    \/ features_from_states_actions
    \/ train_ofe
    \/ test_ofe

Spec == Init /\ [][Next]_vars

\* The same, with a caller that also sets the mode of the network.
NextCaller ==
    \/ Next
    \/ set_mode

SpecCaller == Init /\ [][NextCaller]_vars

\* ------------------------------------------------------------------ claims
FeatureCalls == {"features_from_states", "features_from_states_actions"}
LossCalls == {"train_ofe", "test_ofe"}

\* C1: every call of features_from_states and of features_from_states_actions
\* leaves the mode of the state branch and of the action branch as it was
\* immediately before the call, whether the call returns or raises, and
\* whatever mode the caller had set.
C1_ModesRestored ==
    [][call'.op \in FeatureCalls =>
         /\ state_training' = state_training
         /\ action_training' = action_training]_vars

\* C2: a test_ofe call, wherever it comes in the sequence of calls (also as
\* the first call that reaches the output projection), changes no parameter
\* of the growth blocks or of the output projection and no optimizer state.
C2_TestChangesNoParameter ==
    [][call'.op = "test_ofe" =>
         /\ param_version' = param_version
         /\ out_weight' = out_weight
         /\ opt_steps' = opt_steps]_vars

\* C3: a task selector other than fsp, fsdp and rwp makes construction fail,
\* so that a constructed network has one of the three, and no train_ofe or
\* test_ofe call fails for want of a loss.
C3_SelectorCheckedAtConstruction ==
    /\ phase = "built" => self.aux_task \in ValidTasks
    /\ call.op \in LossCalls => call.outcome # "UnboundLocalError"

\* C4: when total_units is not a multiple of num_layers, construction fails
\* on the assertion of the layer-width planner, and no growth block, output
\* projection or optimizer has been created.
C4_IndivisibleFails ==
    (/\ phase # "new"
     /\ self.num_layers # 0
     /\ self.total_units % self.num_layers # 0)
    => /\ phase = "failed"
       /\ ctor_error = "AssertionError"
       /\ self.state_blocks = <<>> /\ self.action_blocks = <<>>
       /\ ~self.out_layer /\ ~self.optimizer

C4_Witness ==
    /\ phase = "failed" /\ ctor_error = "AssertionError"
    /\ self.total_units = 10 /\ self.num_layers = 3

\* The plan is num_layers widths, each total_units / num_layers, summing to
\* total_units.
EvenPlan(units) ==
    /\ Len(units) = self.num_layers
    /\ \A i \in 1..Len(units) : units[i] = self.total_units \div self.num_layers
    /\ SumSeq(units) = self.total_units

\* C5: when total_units is a multiple of num_layers, the planner returns, for
\* the state branch and for the action branch, num_layers widths, each
\* total_units / num_layers and summing to total_units, whatever dim_state
\* and dim_action are.
C5_EvenPlan ==
    (/\ phase # "new"
     /\ self.num_layers # 0
     /\ self.total_units % self.num_layers = 0)
    => /\ phase = "built"
       /\ EvenPlan(self.state_blocks)
       /\ EvenPlan(self.action_blocks)

C5_Witness ==
    /\ phase = "built"
    /\ self.total_units = 12 /\ self.num_layers = 3
    /\ self.state_blocks = <<4, 4, 4>> /\ self.action_blocks = <<4, 4, 4>>

\* C6: dim_state_features is the flattened width of the observation space
\* plus total_units, and is the width of what features_from_states returns
\* for an observation that conforms to the observation space.
C6_StateFeatureWidth ==
    phase = "built" =>
        /\ self.dim_state_features =
              SumDict(self.observation_space, DOMAIN self.observation_space)
              + self.total_units
        /\ (/\ call.op = "features_from_states"
            /\ call.outcome = "ok"
            /\ call.conforming) => call.width = self.dim_state_features

MetricNames == {"mae", "mae_percent", "mape", "mse", "mse_percent", "mspe"}

\* C7: no metric of test_ofe is computed with a zero denominator (none is
\* inf or nan), and when the prediction equals the target all six are 0.
C7_NoZeroDenominator ==
    (call.op = "test_ofe" /\ call.outcome = "ok") =>
        /\ \A m \in MetricNames : call.result[m] \notin {"inf", "nan"}
        /\ call.exact => \A m \in MetricNames : call.result[m] = "zero"

\* C8: the input width of the output projection is unbound after
\* construction; the first forward pass of train_ofe or test_ofe that reaches
\* the projection binds it to the width of its features and initializes the
\* parameters; once bound it never changes; and a later pass with features of
\* another width raises and leaves the width and the parameters as they were.
C8_LazyProjection ==
    [][/\ phase = "new" => out_in_features' = 0 /\ out_weight' = 0
       /\ (out_in_features = 0 /\ call'.op \in LossCalls /\ call'.ran)
            => out_in_features' = call'.width /\ out_weight' >= 1
       /\ (out_in_features = 0 /\ out_in_features' # 0)
            => call'.op \in LossCalls /\ call'.ran
       /\ out_in_features # 0 => out_in_features' = out_in_features
       /\ (/\ out_in_features # 0 /\ call'.op \in LossCalls /\ call'.ran
           /\ call'.width # out_in_features)
            => /\ call'.outcome = "RuntimeError"
               /\ out_weight' = out_weight]_vars

C8_Witness ==
    /\ call.op \in LossCalls /\ call.outcome = "RuntimeError"
    /\ out_in_features # 0 /\ call.width # 0
    /\ call.width # out_in_features

\* C9 as stated: the optimizer step count is the number of train_ofe calls
\* made (here for the networks whose task selector is one of the three).
C9_StepPerCall ==
    (phase = "built" /\ self.aux_task \in ValidTasks) => opt_steps = train_calls

\* C9, amended: the optimizer step count is the number of train_ofe calls
\* that returned; each of them cleared the gradients before its backward
\* pass, so that the gradients held are those of one loss; a train_ofe call
\* that raises, and every other call, takes no optimizer step.
C9_StepPerReturn ==
    /\ opt_steps = train_returns
    /\ grads = (IF train_returns = 0 THEN 0 ELSE 1)

C9_Witness ==
    /\ train_calls = 2 /\ train_returns = 1 /\ opt_steps = 1
    /\ call.op = "train_ofe" /\ call.outcome = "ok"

\* C10: on a network used through its own calls only, every forward pass of
\* train_ofe runs with both branches in training mode; the forward pass of
\* test_ofe runs with both in inference mode, and both are in training mode
\* when test_ofe returns. The calls before a train_ofe may have raised.
C10_TrainsInTrainingMode ==
    /\ (call.op = "train_ofe" /\ call.ran)
         => call.state_mode /\ call.action_mode
    /\ call.op = "test_ofe"
         => ~call.state_mode /\ ~call.action_mode
    /\ (call.op = "test_ofe" /\ call.outcome = "ok")
         => state_training /\ action_training
====
